---- MODULE Spec2Model ----
(***************************************************************************)
(* rust-gov-data: a batch job that lists the dataset identifiers of a CKAN *)
(* catalogue, fetches every dataset's metadata with bounded concurrency,   *)
(* writes the found records as CSV and uploads the file to S3.             *)
(*                                                                         *)
(* The repository holds two crates with the same pipeline: the root crate  *)
(* (src/src) and the older gov-data crate (src/gov-data/src).  The         *)
(* variable `crate` says which one a run executes.                         *)
(***************************************************************************)
EXTENDS Integers, Sequences, FiniteSets, TLC

(***************************************************************************)
(* Bounds of the model.                                                    *)
(***************************************************************************)
MaxIds == 3         \* longest identifier list the pipeline runs are given
MaxC == 2           \* largest CONCURRENCY_LIMIT of a pipeline run
MaxListLen == 22    \* longest identifier list given to the Lister alone
MaxResources == 3   \* longest resource list given to the flattening alone
MaxNotesLen == 6    \* longest description given to the markup stripping alone
MaxSettingLen == 2  \* longest setting string given to Config::validate alone

(***************************************************************************)
(* Program constants.                                                      *)
(***************************************************************************)
TEST_MODE_DATASET_LIMIT == 20

VARIABLES
    crate,              \* "root" | "govdata": the crate whose code runs
    test_mode,          \* the event's test_mode flag
    concurrency_limit,  \* get_concurrency_limit()
    listing_response,   \* what the package_list endpoint answers in this run
    pc,                 \* position of process_datasets
    dataset_ids,        \* Vec<String> returned by fetch_dataset_list
    next_incoming,      \* identifiers taken from stream::iter(dataset_ids) so far
    stream_done,        \* Fuse::is_done of the identifier stream
    in_progress,        \* FuturesOrdered: indices whose fetch is still running
    queued_outputs,     \* FuturesOrdered: finished fetches not yet yielded
    next_outgoing,      \* FuturesOrdered::next_outgoing_index (1-based here)
    metadata_results,   \* the Vec collected from the buffered stream
    started,            \* per index: how many times its fetch was started
    overtaken,          \* a fetch has finished before one that was started earlier
    completion_order,   \* the indices of the finished fetches, in finishing order
    collected_order,    \* the indices of the collected outcomes, in collecting order
    csv_file,           \* the table written to the CSV file, <<>> before
    uploaded,           \* the table handed to S3, <<>> before
    fail_stage,         \* the stage whose error ended process_datasets
    logged_count,       \* <<n>> once "Writing n datasets to CSV..." is logged
    handler_result,     \* <<r>> once function_handler has returned r
    fn_input,           \* argument of the function applied on its own
    fn_output           \* its result

pipeVars == <<crate, test_mode, concurrency_limit, listing_response, pc,
              dataset_ids, next_incoming, stream_done, in_progress,
              queued_outputs, next_outgoing, metadata_results, started,
              overtaken, completion_order, collected_order, csv_file, uploaded, fail_stage, logged_count, handler_result>>
fnVars == <<fn_input, fn_output>>
vars == <<pipeVars, fnVars>>

Min(a, b) == IF a < b THEN a ELSE b
Max(a, b) == IF a < b THEN b ELSE a

(***************************************************************************)
(* The catalogue the runs talk to.  A detail response is a transport       *)
(* result, an HTTP status and a JSON body; a JSON object is a record whose *)
(* domain holds exactly the keys that are present.  notes is a sequence    *)
(* of characters because the code inspects its characters.                 *)
(***************************************************************************)
CatalogIds == {"f0", "f1", "f2", "nf", "st", "er"}

Dataset(id, notes, resources) ==
    [id |-> id, title |-> "T", notes |-> notes, license_title |-> "OGL",
     organization |-> [title |-> "Org"], metadata_created |-> "2020-01-01",
     metadata_modified |-> "2020-01-02", resources |-> resources]

Response(transport, status, json_ok, result) ==
    [transport |-> transport, status |-> status, json_ok |-> json_ok,
     result |-> result]

\* what GET package_show?id=<id> answers; result is <<>> for JSON null
CkanDetail(id) ==
    CASE id = "f0" ->
           Response("ok", 200, TRUE,
                    << Dataset("f0", <<"a", "<", "b", ">", "c">>, <<>>) >>)
      [] id = "f1" ->
           Response("ok", 200, TRUE,
                    << Dataset("f1", <<"x">>,
                         << [name |-> "r", format |-> "PDF", url |-> "v1"] >>) >>)
      [] id = "f2" ->
           Response("ok", 200, TRUE,
                    << Dataset("f2", <<>>,
                         << [name |-> "r", format |-> "CSV", url |-> "u1"],
                            [name |-> "r", url |-> "u2"],
                            [name |-> "r", format |-> "JSON"] >>) >>)
      [] id = "nf" -> Response("ok", 200, TRUE, <<>>)
      [] id = "st" -> Response("ok", 404, TRUE, <<>>)
      [] OTHER -> Response("timeout", 0, FALSE, <<>>)

(***************************************************************************)
(* Pure helpers of the Fetcher.                                            *)
(***************************************************************************)
RECURSIVE join(_, _)
join(v, sep) ==
    IF v = <<>> THEN ""
    ELSE IF Len(v) = 1 THEN v[1]
    ELSE v[1] \o sep \o join(Tail(v), sep)

\* a map that keeps an empty slot for a resource without the field
RECURSIVE map_field_or_empty(_, _)
map_field_or_empty(arr, key) ==
    IF arr = <<>> THEN <<>>
    ELSE <<IF key \in DOMAIN Head(arr) THEN Head(arr)[key] ELSE "">>
         \o map_field_or_empty(Tail(arr), key)

\* iter().filter_map(|res| res.<key>): the values of the resources that have one
RECURSIVE filter_map_field(_, _)
filter_map_field(arr, key) ==
    IF arr = <<>> THEN <<>>
    ELSE (IF key \in DOMAIN Head(arr) THEN <<Head(arr)[key]>> ELSE <<>>)
         \o filter_map_field(Tail(arr), key)

\* ckan.rs: the typed dataset always has a resources vector
ckan_extract_resource_formats_and_urls(dataset) ==
    [formats |-> join(filter_map_field(dataset.resources, "format"), ", "),
     urls |-> filter_map_field(dataset.resources, "url")]

\* main.rs: the untyped JSON value may lack the resources array
extract_resource_formats_and_urls(result) ==
    IF "resources" \in DOMAIN result
    THEN [formats |-> join(filter_map_field(result.resources, "format"), ", "),
          urls |-> filter_map_field(result.resources, "url")]
    ELSE [formats |-> "", urls |-> <<>>]

\* a search for the closing ">" that gives up at a nested "<"
RECURSIVE find_close_no_nested(_, _)
find_close_no_nested(s, j) ==
    IF j > Len(s) THEN 0
    ELSE IF s[j] = ">" THEN j
    ELSE IF s[j] = "<" THEN 0
    ELSE find_close_no_nested(s, j + 1)

\* first index j > i with s[j] = ">", or 0
RECURSIVE find_close(_, _)
find_close(s, j) ==
    IF j > Len(s) THEN 0
    ELSE IF s[j] = ">" THEN j
    ELSE find_close(s, j + 1)

\* Regex::new(r"<[^>]+>").replace_all(notes, ""): leftmost, non-overlapping
RECURSIVE replace_all_from(_, _)
replace_all_from(s, i) ==
    IF i > Len(s) THEN <<>>
    ELSE LET j == find_close(s, i + 1)
         IN IF s[i] = "<" /\ j > i + 1
            THEN replace_all_from(s, j + 1)
            ELSE <<s[i]>> \o replace_all_from(s, i + 1)

HTML_TAG_REGEX_replace_all(notes) == replace_all_from(notes, 1)

\* Cow<str>::to_string() of the cleaned characters
RECURSIVE cow_to_string(_)
cow_to_string(chars) ==
    IF chars = <<>> THEN "" ELSE Head(chars) \o cow_to_string(Tail(chars))

as_str_or_default(obj, key) == IF key \in DOMAIN obj THEN obj[key] ELSE ""

(***************************************************************************)
(* Record Fetcher.  A fetch outcome is Result<Option<..>>: Err(e), or      *)
(* Ok(<<>>) for Ok(None), or Ok(<<v>>) for Ok(Some(v)).                    *)
(***************************************************************************)
Ok(value) == [tag |-> "Ok", value |-> value]
Err(e) == [tag |-> "Err", error |-> e]

is_success(status) == status >= 200 /\ status <= 299

\* a fetch that treats the JSON null of an unknown dataset as an error
none_result_as_error == Err("no result")

\* None => return Ok(None): the outcome for a package_show result of null
none_result == Ok(<<>>)

\* root crate, main.rs
fetch_dataset_metadata(response) ==
    IF response.transport # "ok" THEN Err("request")            \* .send().await?
    ELSE IF is_success(response.status)
    THEN IF ~response.json_ok THEN Err("json")                  \* .json().await?
         ELSE IF response.result = <<>> THEN none_result
         ELSE LET result == response.result[1]
                  fu == extract_resource_formats_and_urls(result)
                  notes == IF "notes" \in DOMAIN result THEN result.notes ELSE <<>>
                  clean_description ==
                      cow_to_string(HTML_TAG_REGEX_replace_all(notes))
              IN Ok(<< [meta |->
                          [id |-> as_str_or_default(result, "id"),
                           title |-> as_str_or_default(result, "title"),
                           description |-> clean_description,
                           license |-> as_str_or_default(result, "license_title"),
                           organization |->
                               IF "organization" \in DOMAIN result
                               THEN as_str_or_default(result.organization, "title")
                               ELSE "",
                           created |-> as_str_or_default(result, "metadata_created"),
                           modified |-> as_str_or_default(result, "metadata_modified"),
                           format |-> fu.formats],
                        urls |-> fu.urls] >>)
    ELSE Ok(<<>>)

\* serde_json::to_string(&urls) of a vector of strings
serde_json_to_string(urls) ==
    "[" \o join([i \in 1..Len(urls) |-> "\"" \o urls[i] \o "\""], ",") \o "]"

\* gov-data crate: the URLs travel inside the record as one JSON string
govdata_fetch_dataset_metadata(response) ==
    LET r == fetch_dataset_metadata(response)
    IN IF r.tag = "Ok" /\ r.value # <<>>
       THEN Ok(<< [meta |-> [id |-> r.value[1].meta.id,
                             title |-> r.value[1].meta.title,
                             description |-> r.value[1].meta.description,
                             license |-> r.value[1].meta.license,
                             organization |-> r.value[1].meta.organization,
                             created |-> r.value[1].meta.created,
                             modified |-> r.value[1].meta.modified,
                             format |-> r.value[1].meta.format,
                             download_urls |->
                                 serde_json_to_string(r.value[1].urls)]] >>)
       ELSE r

\* the keys serde requires of a CkanDataset, and of its CkanOrganization
CkanDatasetFields ==
    {"id", "title", "notes", "license_title", "organization",
     "metadata_created", "metadata_modified", "resources"}

\* serde_json deserialization of the result object into CkanDataset:
\* <<dataset>>, or <<>> when a required key is missing
deserialize_CkanDataset(result) ==
    IF /\ CkanDatasetFields \subseteq DOMAIN result
       /\ "title" \in DOMAIN result.organization
    THEN <<result>>
    ELSE <<>>

\* root crate, ckan.rs: the typed fetch
ckan_fetch_dataset_metadata(response) ==
    IF response.transport # "ok" THEN Err("request")            \* .send().await?
    ELSE IF is_success(response.status)
    THEN IF ~response.json_ok THEN Err("json")                  \* .json().await?
         ELSE IF response.result = <<>> THEN none_result
         ELSE IF deserialize_CkanDataset(response.result[1]) = <<>>
         THEN Err("json")                                       \* missing field
         ELSE LET dataset == deserialize_CkanDataset(response.result[1])[1]
                  fu == ckan_extract_resource_formats_and_urls(dataset)
                  clean_description ==
                      cow_to_string(HTML_TAG_REGEX_replace_all(dataset.notes))
              IN Ok(<< [meta |->
                          [id |-> dataset.id,
                           title |-> dataset.title,
                           description |-> clean_description,
                           license |-> dataset.license_title,
                           organization |-> dataset.organization.title,
                           created |-> dataset.metadata_created,
                           modified |-> dataset.metadata_modified,
                           format |-> fu.formats],
                        urls |-> fu.urls] >>)
    ELSE Ok(<<>>)

(***************************************************************************)
(* Record Lister.                                                          *)
(***************************************************************************)
\* a take that lets one element too many through
RECURSIVE take_one_more(_, _)
take_one_more(items, n) ==
    IF n < 0 \/ items = <<>> THEN <<>>
    ELSE <<Head(items)>> \o take_one_more(Tail(items), n - 1)

\* Iterator::take(n).collect()
RECURSIVE take(_, _)
take(items, n) ==
    IF n = 0 \/ items = <<>> THEN <<>>
    ELSE <<Head(items)>> \o take(Tail(items), n - 1)

maybe_truncate_for_test_mode(items, tm, max) ==
    IF tm THEN take(items, max) ELSE items

\* a listing that answers the empty list when the request or the body fails
fetch_dataset_list_or_empty(response, tm) ==
    IF response.transport # "ok" \/ ~response.json_ok THEN Ok(<<>>)
    ELSE Ok(maybe_truncate_for_test_mode(response.result, tm, 20))

\* main.rs (both crates)
fetch_dataset_list(response, tm) ==
    IF response.transport # "ok" THEN Err("request")
    ELSE IF ~response.json_ok THEN Err("json")
    ELSE Ok(maybe_truncate_for_test_mode(response.result, tm, 20))

\* ckan.rs
ckan_fetch_dataset_list(response, tm) ==
    IF response.transport # "ok" THEN Err("request")
    ELSE IF ~response.json_ok THEN Err("json")
    ELSE Ok(IF tm THEN take(response.result, TEST_MODE_DATASET_LIMIT)
            ELSE response.result)

(***************************************************************************)
(* Tabular Assembler and CSV writer.                                       *)
(***************************************************************************)
is_found(res) == res.tag = "Ok" /\ res.value # <<>>

\* an assembler that writes a blank row for an absent or failed outcome
RECURSIVE collect_with_error_rows(_)
collect_with_error_rows(results) ==
    IF results = <<>> THEN <<>>
    ELSE (IF is_found(Head(results)) THEN <<Head(results).value[1]>>
          ELSE << [meta |-> [id |-> "", title |-> "", description |-> "",
                             license |-> "", organization |-> "", created |-> "",
                             modified |-> "", format |-> "", download_urls |-> "[]"],
                   urls |-> <<>>] >>)
         \o collect_with_error_rows(Tail(results))

\* main.rs 198-205 / gov-data main.rs 188-193: keep the Ok(Some(_)) outcomes
RECURSIVE collect_found(_)
collect_found(results) ==
    IF results = <<>> THEN <<>>
    ELSE (IF is_found(Head(results)) THEN <<Head(results).value[1]>> ELSE <<>>)
         \o collect_found(Tail(results))

\* max_urls = max_urls.max(urls.len()) over the kept outcomes, from 0
RECURSIVE max_urls_from(_, _)
max_urls_from(dataset_metadata, max_urls) ==
    IF dataset_metadata = <<>> THEN max_urls
    ELSE max_urls_from(Tail(dataset_metadata),
                       Max(max_urls, Len(Head(dataset_metadata).urls)))

max_urls_of(dataset_metadata) == max_urls_from(dataset_metadata, 0)

fixed_header ==
    <<"id", "title", "description", "license", "organization", "created",
      "modified", "format">>

csv_header(max_urls) ==
    fixed_header \o [i \in 1..max_urls |-> "download_url_" \o ToString(i)]

\* a row writer that forgets the padding
csv_row_unpadded(meta, urls, max_urls) ==
    <<meta.id, meta.title, meta.description, meta.license, meta.organization,
      meta.created, meta.modified, meta.format>> \o urls

csv_row(meta, urls, max_urls) ==
    <<meta.id, meta.title, meta.description, meta.license, meta.organization,
      meta.created, meta.modified, meta.format>>
    \o [i \in 1..max_urls |-> IF i <= Len(urls) THEN urls[i] ELSE ""]

\* the records of the file written by the root crate
write_csv(dataset_metadata) ==
    LET max_urls == max_urls_of(dataset_metadata)
    IN <<csv_header(max_urls)>>
       \o [k \in 1..Len(dataset_metadata) |->
             csv_row(dataset_metadata[k].meta, dataset_metadata[k].urls, max_urls)]

\* gov-data: csv::Writer::serialize writes the struct's field names, then rows
govdata_serialize(dataset_metadata) ==
    << fixed_header \o <<"download_urls">> >>
    \o [k \in 1..Len(dataset_metadata) |->
          LET meta == dataset_metadata[k].meta
          IN <<meta.id, meta.title, meta.description, meta.license,
               meta.organization, meta.created, meta.modified, meta.format,
               meta.download_urls>>]

(***************************************************************************)
(* Bounded fan-out: stream::iter(ids).map(fetch).buffered(limit).collect() *)
(***************************************************************************)
\* a queue length that leaves out the fetches still running
queue_len_finished_only(running, queued) == Cardinality(queued)

\* FuturesOrdered::len(): the fetches running and the outputs not yet yielded
queue_len(running, queued) == Cardinality(running) + Cardinality(queued)

\* a filling loop that admits one fetch too many
window_has_room_inclusive(len, max) == len <= max

\* a filling loop that stops one fetch short of the limit
window_has_room_short(len, max) == len + 1 < max

\* Buffered::poll_next: while in_progress_queue.len() < max
window_has_room(len, max) == len < max

\* a scheduler that works in batches: it admits only into an empty queue
RECURSIVE fill_batch_loop(_, _, _, _, _, _)
fill_batch_loop(ni, running, done, queued, n, max) ==
    IF queue_len(running, queued) < max
    THEN IF ni < n
         THEN fill_batch_loop(ni + 1, running \cup {ni + 1}, done, queued, n, max)
         ELSE [next_incoming |-> ni, in_progress |-> running, stream_done |-> TRUE]
    ELSE [next_incoming |-> ni, in_progress |-> running, stream_done |-> done]

fill_batch(ni, running, done, queued, n, max) ==
    IF queue_len(running, queued) = 0
    THEN fill_batch_loop(ni, running, done, queued, n, max)
    ELSE [next_incoming |-> ni, in_progress |-> running, stream_done |-> done]

\* Buffered::poll_next's filling loop: take identifiers from the stream and
\* start their fetches while the queue has room; the fused stream is done
\* once it was polled after its last identifier
RECURSIVE fill(_, _, _, _, _, _)
fill(ni, running, done, queued, n, max) ==
    IF window_has_room(queue_len(running, queued), max)
    THEN IF ni < n
         THEN fill(ni + 1, running \cup {ni + 1}, done, queued, n, max)
         ELSE [next_incoming |-> ni, in_progress |-> running, stream_done |-> TRUE]
    ELSE [next_incoming |-> ni, in_progress |-> running, stream_done |-> done]

\* an unordered queue: any finished output may be yielded
ready_outputs_unordered(queued, outgoing) == queued

\* FuturesOrdered::poll_next: the finished outputs that may be yielded now
ready_outputs(queued, outgoing) == {o \in queued : o.index = outgoing}

\* the fetch each crate's closure runs for an identifier
fetch_outcome(c, id) ==
    IF c = "root" THEN fetch_dataset_metadata(CkanDetail(id))
    ELSE govdata_fetch_dataset_metadata(CkanDetail(id))

\* a collection that lets an error escape instead of keeping it as a value
collect_item_dropping_errors(results, outcome) ==
    IF outcome.tag = "Err" THEN results ELSE Append(results, outcome)

\* a collection that puts each yielded outcome in front of the earlier ones
collect_item_front(results, outcome) == <<outcome>> \o results

\* how the collected Vec handles a yielded outcome: every item is kept
collect_item(results, outcome) == Append(results, outcome)

(***************************************************************************)
(* The invocation boundary.                                                *)
(***************************************************************************)
\* function_handler after process_datasets(test_mode).await has returned result
function_handler(c, result, tm) ==
    IF c = "root"
    THEN IF result.tag = "Ok" THEN Ok([status |-> "success"])
         ELSE Err(result.error)                 \* process_datasets(..).await?
    ELSE IF result.tag = "Ok"
         THEN Ok([message |-> "Dataset metadata stored in S3", test_mode |-> tm])
         ELSE Ok([error |-> "process_datasets failed: " \o result.error,
                  test_mode |-> tm])

\* the answer is the success message of its crate
ReportsSuccess(r) ==
    /\ r.tag = "Ok"
    /\ "error" \notin DOMAIN r.value

(***************************************************************************)
(* The pipeline.                                                           *)
(***************************************************************************)
Range(f) == {f[i] : i \in DOMAIN f}

\* the sequences of at most n distinct elements of S
RECURSIVE InjectiveSeqs(_, _)
InjectiveSeqs(S, n) ==
    IF n = 0 THEN {<<>>}
    ELSE LET shorter == InjectiveSeqs(S, n - 1)
         IN shorter \cup
            UNION {{Append(q, x) : x \in S \ Range(q)} :
                     q \in {r \in shorter : Len(r) = n - 1}}

Listings == InjectiveSeqs(CatalogIds, MaxIds)

\* the run never reads the status of the listing response, so the 500 with a
\* readable body is given with the lists of at most one identifier only
ListingResponses ==
    {Response("error", 0, FALSE, <<>>)}
    \cup {Response("ok", st, FALSE, <<>>) : st \in {200, 500}}
    \cup {Response("ok", 200, TRUE, ids) : ids \in Listings}
    \cup {Response("ok", 500, TRUE, ids) : ids \in {l \in Listings : Len(l) <= 1}}

FnIdle == fn_input = [op |-> "none"] /\ fn_output = <<>>

Init ==
    /\ crate \in {"root", "govdata"}
    /\ test_mode \in BOOLEAN
    /\ concurrency_limit \in 0..MaxC
    /\ listing_response \in ListingResponses
    /\ pc = "start"
    /\ dataset_ids = <<>>
    /\ next_incoming = 0
    /\ stream_done = FALSE
    /\ in_progress = {}
    /\ queued_outputs = {}
    /\ next_outgoing = 1
    /\ metadata_results = <<>>
    /\ started = <<>>
    /\ overtaken = FALSE
    /\ completion_order = <<>>
    /\ collected_order = <<>>
    /\ csv_file = <<>>
    /\ uploaded = <<>>
    /\ fail_stage = "none"
    /\ logged_count = <<>>
    /\ handler_result = <<>>
    /\ FnIdle

envVars == <<crate, test_mode, concurrency_limit, listing_response>>
fanVars == <<next_incoming, stream_done, in_progress, queued_outputs,
             next_outgoing, metadata_results, started, overtaken,
             completion_order, collected_order>>
outVars == <<csv_file, uploaded, logged_count, handler_result>>

\* process_datasets up to the listing: fetch_dataset_list(&client, test_mode).await?
FetchList ==
    /\ pc = "start"
    /\ LET r == fetch_dataset_list(listing_response, test_mode)
       IN IF r.tag = "Ok"
          THEN /\ dataset_ids' = r.value
               /\ started' = [i \in 1..Len(r.value) |-> 0]
               /\ pc' = "listed"
               /\ UNCHANGED fail_stage
          ELSE /\ pc' = "failed"
               /\ fail_stage' = "listing"
               /\ UNCHANGED <<dataset_ids, started>>
    /\ UNCHANGED <<envVars, next_incoming, stream_done, in_progress, queued_outputs,
                   next_outgoing, metadata_results, overtaken, completion_order,
                   collected_order, outVars, fnVars>>

\* the first poll of the buffered stream fills the queue
StartFanout ==
    /\ pc = "listed"
    /\ LET f == fill(0, {}, FALSE, {}, Len(dataset_ids), concurrency_limit)
       IN /\ next_incoming' = f.next_incoming
          /\ in_progress' = f.in_progress
          /\ stream_done' = f.stream_done
          /\ started' = [i \in DOMAIN started |->
                           IF i \in f.in_progress THEN started[i] + 1 ELSE started[i]]
    /\ pc' = "fanout"
    /\ UNCHANGED <<envVars, dataset_ids, queued_outputs, next_outgoing,
                   metadata_results, overtaken, completion_order,
                   collected_order, outVars, fail_stage, fnVars>>

\* the fetch of the identifier at index i finishes with its outcome
FetchComplete(i) ==
    /\ pc = "fanout"
    /\ i \in in_progress
    /\ in_progress' = in_progress \ {i}
    /\ queued_outputs' = queued_outputs \cup
           {[index |-> i, data |-> fetch_outcome(crate, dataset_ids[i])]}
    /\ overtaken' = (overtaken \/ \E j \in in_progress : j < i)
    /\ completion_order' = Append(completion_order, i)
    /\ UNCHANGED <<envVars, pc, dataset_ids, next_incoming, stream_done,
                   next_outgoing, metadata_results, started, collected_order,
                   outVars, fail_stage, fnVars>>

\* the buffered stream yields the next outcome to collect, which polls again:
\* the queue is refilled
YieldNext ==
    /\ pc = "fanout"
    /\ \E o \in ready_outputs(queued_outputs, next_outgoing) :
         LET queued == queued_outputs \ {o}
             f == fill(next_incoming, in_progress, stream_done, queued,
                       Len(dataset_ids), concurrency_limit)
         IN /\ queued_outputs' = queued
            /\ next_outgoing' = next_outgoing + 1
            /\ metadata_results' = collect_item(metadata_results, o.data)
            /\ collected_order' = Append(collected_order, o.index)
            /\ next_incoming' = f.next_incoming
            /\ in_progress' = f.in_progress
            /\ stream_done' = f.stream_done
            /\ started' = [i \in DOMAIN started |->
                             IF i \in f.in_progress \ in_progress
                             THEN started[i] + 1 ELSE started[i]]
    /\ UNCHANGED <<envVars, pc, dataset_ids, overtaken, completion_order,
                   outVars, fail_stage, fnVars>>

\* the buffered stream ends: its queue is empty and the identifier stream done
FinishFanout ==
    /\ pc = "fanout"
    /\ queue_len(in_progress, queued_outputs) = 0
    /\ stream_done
    /\ pc' = "write"
    /\ UNCHANGED <<envVars, dataset_ids, fanVars, outVars, fail_stage, fnVars>>

\* filter the outcomes, then write and flush the CSV file (which may fail);
\* the root crate logs the number of records before it creates the file
WriteCsv ==
    /\ pc = "write"
    /\ LET dataset_metadata == collect_found(metadata_results)
       IN /\ logged_count' = IF crate = "root"
                             THEN <<Len(dataset_metadata)>>
                             ELSE logged_count
          /\ IF crate = "govdata" /\ dataset_metadata = <<>>
             THEN /\ pc' = "done"
                  /\ UNCHANGED <<csv_file, fail_stage>>
             ELSE \E io_ok \in BOOLEAN :
                    IF io_ok
                    THEN /\ csv_file' = IF crate = "root"
                                        THEN write_csv(dataset_metadata)
                                        ELSE govdata_serialize(dataset_metadata)
                         /\ pc' = "upload"
                         /\ UNCHANGED fail_stage
                    ELSE /\ pc' = "failed"
                         /\ fail_stage' = "write"
                         /\ UNCHANGED csv_file
    /\ UNCHANGED <<envVars, dataset_ids, fanVars, uploaded, handler_result, fnVars>>

\* upload_to_s3(&csv_file).await?
UploadToS3 ==
    /\ pc = "upload"
    /\ \E put_ok \in BOOLEAN :
         IF put_ok
         THEN /\ uploaded' = csv_file
              /\ pc' = "done"
              /\ UNCHANGED fail_stage
         ELSE /\ pc' = "failed"
              /\ fail_stage' = "upload"
              /\ UNCHANGED uploaded
    /\ UNCHANGED <<envVars, dataset_ids, fanVars, csv_file, logged_count,
                   handler_result, fnVars>>

\* what process_datasets returned to function_handler
process_datasets_result ==
    IF pc = "done" THEN Ok("()") ELSE Err(fail_stage)

\* function_handler returns: the root crate propagates the error of
\* process_datasets with `?`, the gov-data crate answers Ok with an "error" key
FunctionHandlerReturn ==
    /\ pc \in {"done", "failed"}
    /\ handler_result = <<>>
    /\ handler_result' =
         <<function_handler(crate, process_datasets_result, test_mode)>>
    /\ UNCHANGED <<envVars, pc, dataset_ids, fanVars, csv_file, uploaded,
                   logged_count, fail_stage, fnVars>>

Next ==
    \/ FetchList
    \/ StartFanout
    \/ \E i \in in_progress : FetchComplete(i)
    \/ YieldNext
    \/ FinishFanout
    \/ WriteCsv
    \/ UploadToS3
    \/ FunctionHandlerReturn

Spec == Init /\ [][Next]_vars

\* the scheduling the runtime guarantees: a woken task is polled, and every
\* started request ends (with a response, an error or its 10 s timeout)
\* runs of the root crate on a full-size event (the truncation of test mode
\* never applies to the lists of these runs)
InitFair == Init /\ crate = "root" /\ ~test_mode

FairSpec ==
    /\ InitFair
    /\ [][Next]_vars
    /\ WF_vars(FetchList)
    /\ WF_vars(StartFanout)
    /\ \A i \in 1..MaxIds : WF_vars(FetchComplete(i))
    /\ WF_vars(YieldNext)
    /\ WF_vars(FinishFanout)

(***************************************************************************)
(* Properties of the bounded fan-out.                                      *)
(***************************************************************************)
NumIds == Len(dataset_ids)

\* process_datasets is past its buffered collect
FanoutComplete ==
    \/ pc \in {"write", "upload", "done"}
    \/ pc = "failed" /\ fail_stage # "listing"

\* C1: with a concurrency limit C > 0, the number of detail fetches that have
\* been started and have not yet completed never exceeds C.
C1_ConcurrencyBound ==
    concurrency_limit > 0 => Cardinality(in_progress) <= concurrency_limit

\* C1: the limit is reached again after an outcome was yielded and the
\* waiting identifier admitted
C1_Witness ==
    /\ pc = "fanout"
    /\ concurrency_limit = MaxC
    /\ Cardinality(in_progress) = concurrency_limit
    /\ next_outgoing > 1

\* C2: when the fan-out completes, the collected sequence has exactly one
\* entry per listed identifier, every identifier's fetch was started exactly
\* once, and the i-th entry is the outcome of fetching the i-th identifier;
\* no fetch is ever started twice, and the fan-out is not complete while an
\* identifier lacks its outcome.
C2_OneOutcomePerIdentifier ==
    /\ \A i \in DOMAIN started : started[i] <= 1
    /\ FanoutComplete =>
         /\ Len(metadata_results) = NumIds
         /\ in_progress = {} /\ queued_outputs = {}
         /\ \A i \in 1..NumIds :
              /\ started[i] = 1
              /\ metadata_results[i] = fetch_outcome(crate, dataset_ids[i])

\* C2: a completed fan-out over a full-length list, run two at a time
C2_Witness ==
    /\ FanoutComplete
    /\ NumIds = MaxIds
    /\ concurrency_limit = 2
    /\ \E i, j \in 1..NumIds : metadata_results[i] # metadata_results[j]

\* the outcome yielded by a step that yields one
YieldedIsErr ==
    /\ Len(metadata_results') = Len(metadata_results) + 1
    /\ metadata_results'[Len(metadata_results')].tag = "Err"

C4_EventualCompletion ==
    (pc = "listed" /\ concurrency_limit > 0)
        ~> (pc = "write" /\ \A i \in 1..NumIds : started[i] = 1)

\* C4: the writing stage is reached although one fetch timed out
C4_Witness ==
    /\ pc = "write"
    /\ concurrency_limit > 0
    /\ NumIds = MaxIds
    /\ \E i \in 1..NumIds : metadata_results[i].tag = "Err"

\* C5 as stated: whichever in-flight fetch completes, the next identifier is
\* admitted, so that C fetches are in flight as long as identifiers remain
\* un-admitted (in the states where the scheduler has nothing left to yield).
C5_AdmissionOnAnyCompletion ==
    (/\ pc = "fanout"
     /\ next_incoming < NumIds
     /\ ready_outputs(queued_outputs, next_outgoing) = {})
        => Cardinality(in_progress) = concurrency_limit

\* C5 amended: the next identifier is admitted when the outcome of the oldest
\* admitted identifier is yielded; the completion of any other fetch admits
\* nothing; fetches in flight plus finished but not yet yielded outcomes
\* number C as long as identifiers remain un-admitted.
C5_AdmissionOnYield ==
    /\ [](pc = "fanout" /\ next_incoming < NumIds
            => queue_len(in_progress, queued_outputs) = concurrency_limit)
    /\ [][next_outgoing' = next_outgoing + 1 /\ next_incoming < NumIds
             => /\ next_incoming' = next_incoming + 1
                /\ next_incoming' \in in_progress']_vars
    /\ [][next_outgoing' = next_outgoing
             => next_incoming' = next_incoming \/ pc = "listed"]_vars

\* C5: a later fetch has finished while the oldest is still running and an
\* identifier waits, and then the oldest is yielded
C5_Witness ==
    /\ pc = "fanout"
    /\ concurrency_limit >= 2
    /\ next_outgoing = 2
    /\ next_incoming = concurrency_limit + 1
    /\ \E o \in queued_outputs : o.index > next_outgoing

(***************************************************************************)
(* Functions applied on their own: the Lister's truncation and the         *)
(* Fetcher's resource flattening, each over its own bounded inputs.        *)
(***************************************************************************)
PipeIdle ==
    /\ crate = "root"
    /\ test_mode = FALSE
    /\ concurrency_limit = 1
    /\ listing_response = Response("error", 0, FALSE, <<>>)
    /\ pc = "idle"
    /\ dataset_ids = <<>>
    /\ next_incoming = 0
    /\ stream_done = FALSE
    /\ in_progress = {}
    /\ queued_outputs = {}
    /\ next_outgoing = 1
    /\ metadata_results = <<>>
    /\ started = <<>>
    /\ overtaken = FALSE
    /\ completion_order = <<>>
    /\ collected_order = <<>>
    /\ csv_file = <<>>
    /\ uploaded = <<>>
    /\ fail_stage = "none"
    /\ logged_count = <<>>
    /\ handler_result = <<>>

\* identifier lists of every length up to MaxListLen, in two orders
IdLists ==
    {[i \in 1..n |-> "d" \o ToString(i)] : n \in 0..MaxListLen}
    \cup {[i \in 1..n |-> "d" \o ToString(n + 1 - i)] : n \in 0..MaxListLen}

\* the statuses the package_list endpoint answers with
ListingStatuses == {200, 500}

InitList ==
    /\ PipeIdle
    /\ fn_input \in {[op |-> "fetch_dataset_list",
                      response |-> Response("ok", st, TRUE, ids),
                      test_mode |-> tm] :
                        st \in ListingStatuses, ids \in IdLists, tm \in BOOLEAN}
    /\ fn_output = <<>>

ApplyFetchDatasetList ==
    /\ fn_input.op = "fetch_dataset_list"
    /\ fn_output = <<>>
    /\ fn_output' =
         << [main |-> fetch_dataset_list(fn_input.response, fn_input.test_mode),
             ckan |-> ckan_fetch_dataset_list(fn_input.response,
                                              fn_input.test_mode)] >>
    /\ UNCHANGED <<pipeVars, fn_input>>

SpecList == InitList /\ [][ApplyFetchDatasetList]_vars

ResourceFormats == {"CSV", "JSON"}
ResourceUrls == {"u1", "u2"}

\* a resource with or without a format and with or without a URL
ResourceKinds ==
    {[name |-> "r"]}
    \cup {[name |-> "r", format |-> f] : f \in ResourceFormats}
    \cup {[name |-> "r", url |-> u] : u \in ResourceUrls}
    \cup {[name |-> "r", format |-> f, url |-> u] :
            f \in ResourceFormats, u \in ResourceUrls}

SeqsUpTo(S, n) == UNION {[1..k -> S] : k \in 0..n}

InitExtract ==
    /\ PipeIdle
    /\ fn_input \in {[op |-> "extract_resource_formats_and_urls",
                      resources |-> rs] : rs \in SeqsUpTo(ResourceKinds, MaxResources)}
    /\ fn_output = <<>>

ApplyExtract ==
    /\ fn_input.op = "extract_resource_formats_and_urls"
    /\ fn_output = <<>>
    /\ fn_output' =
         << [main |-> extract_resource_formats_and_urls(
                          [resources |-> fn_input.resources]),
             ckan |-> ckan_extract_resource_formats_and_urls(
                          [resources |-> fn_input.resources])] >>
    /\ UNCHANGED <<pipeVars, fn_input>>

SpecExtract == InitExtract /\ [][ApplyExtract]_vars

(***************************************************************************)
(* Properties of the Lister, the Assembler and the flattening.             *)
(***************************************************************************)
\* what the claim asks of a truncated list
TruncatedAsClaimed(items, tm, out) ==
    /\ out.tag = "Ok"
    /\ tm => /\ Len(out.value) = Min(Len(items), 20)
             /\ \A i \in 1..Len(out.value) : out.value[i] = items[i]
    /\ ~tm => out.value = items

\* C6: for every identifier list L the listing endpoint returns,
\* fetch_dataset_list returns the first min(|L|, 20) entries of L in their
\* order in test mode, without padding or failing, and L itself otherwise.
C6_ListingTruncation ==
    fn_output # <<>> =>
        /\ TruncatedAsClaimed(fn_input.response.result, fn_input.test_mode,
                              fn_output[1].main)
        /\ TruncatedAsClaimed(fn_input.response.result, fn_input.test_mode,
                              fn_output[1].ckan)

\* C6: a list longer than the limit was cut in test mode
C6_Witness ==
    /\ fn_output # <<>>
    /\ fn_input.test_mode
    /\ Len(fn_input.response.result) > TEST_MODE_DATASET_LIMIT
    /\ Len(fn_output[1].ckan.value) = TEST_MODE_DATASET_LIMIT
    /\ Len(fn_output[1].main.value) = TEST_MODE_DATASET_LIMIT

\* the k-th smallest element of a set of numbers
Kth(S, k) == CHOOSE x \in S : Cardinality({y \in S : y < x}) = k - 1

\* the positions of the Found outcomes in the collected sequence
FoundPositions == {i \in 1..Len(metadata_results) : is_found(metadata_results[i])}

\* the data rows of the written table
DataRows == Tail(csv_file)

\* C7: the table holds exactly one data row per Found outcome and none for a
\* NotFound or Failed one; the rows are in the order of the Found outcomes
\* in the collected sequence.
C7_FoundOnlyRows ==
    csv_file # <<>> =>
        /\ Len(DataRows) = Cardinality(FoundPositions)
        /\ \A k \in 1..Len(DataRows) :
             DataRows[k][1] = metadata_results[Kth(FoundPositions, k)].value[1].meta.id

\* C7: a table of two rows written from outcomes of which one is not Found
C7_Witness ==
    /\ csv_file # <<>>
    /\ Len(DataRows) = 2
    /\ Cardinality(FoundPositions) < Len(metadata_results)

\* the download URLs of the record of the identifier at position i
DownloadUrls(i) ==
    extract_resource_formats_and_urls(CkanDetail(dataset_ids[i]).result[1]).urls

\* the maximum DownloadUrls length over the Found outcomes, 0 without any
MaxFoundUrls ==
    IF FoundPositions = {} THEN 0
    ELSE CHOOSE m \in {Len(DownloadUrls(i)) : i \in FoundPositions} :
           \A i \in FoundPositions : Len(DownloadUrls(i)) <= m

\* C8: once the table stage has succeeded, a table has been written whose
\* header is the 8 fixed columns followed by download_url_1..download_url_M,
\* M being the maximum number of URLs of a Found outcome and 0 without Found
\* outcomes; a finished run has handed that table off.
C8_HeaderShape ==
    pc \in {"upload", "done"} =>
        /\ csv_file # <<>>
        /\ Len(csv_file[1]) = 8 + MaxFoundUrls
        /\ \A c \in 1..8 : csv_file[1][c] = fixed_header[c]
        /\ \A i \in 1..MaxFoundUrls :
             csv_file[1][8 + i] = "download_url_" \o ToString(i)
        /\ pc = "done" => uploaded = csv_file

\* C9: in the table of the root crate every data row is as wide as the
\* header, 8 + M cells; the cells after the 8th are the record's URLs in
\* their order, followed by empty strings.
C9_RectangularRows ==
    (crate = "root" /\ csv_file # <<>>) =>
        \A k \in 1..Len(DataRows) :
            LET urls == DownloadUrls(Kth(FoundPositions, k))
                row == DataRows[k]
            IN /\ Len(row) = Len(csv_file[1])
               /\ Len(row) = 8 + MaxFoundUrls
               /\ Len(urls) <= MaxFoundUrls
               /\ \A j \in 1..Len(urls) : row[8 + j] = urls[j]
               /\ \A j \in Len(urls) + 1..MaxFoundUrls : row[8 + j] = ""

\* C9: the records with 0, 2 and 1 URLs in one table
C9_Witness ==
    /\ crate = "root"
    /\ dataset_ids = <<"f0", "f2", "f1">>
    /\ Len(csv_file) = 4
    /\ csv_file[1][10] = "download_url_2"
    /\ csv_file[4][9] = "v1" /\ csv_file[4][10] = ""

\* the positions of the resources that have the field
PresentAt(resources, key) ==
    {i \in 1..Len(resources) : key \in DOMAIN resources[i]}

\* the first k present format labels joined by comma-space, built from the left
RECURSIVE JoinedFormats(_, _)
JoinedFormats(resources, k) ==
    IF k = 0 THEN ""
    ELSE IF k = 1 THEN resources[Kth(PresentAt(resources, "format"), 1)].format
    ELSE JoinedFormats(resources, k - 1) \o ", "
         \o resources[Kth(PresentAt(resources, "format"), k)].format

\* what the claim asks of the flattening of a resource list
FlattenedAsClaimed(resources, out) ==
    /\ out.formats =
         JoinedFormats(resources, Cardinality(PresentAt(resources, "format")))
    /\ Len(out.urls) = Cardinality(PresentAt(resources, "url"))
    /\ \A k \in 1..Len(out.urls) :
         out.urls[k] = resources[Kth(PresentAt(resources, "url"), k)].url

\* C10: the flattening returns the format labels of exactly the resources
\* that have one, in resource order, joined by comma-space, and on its own
\* the URLs of exactly the resources that have one, in resource order.
C10_ResourceFlattening ==
    fn_output # <<>> =>
        /\ FlattenedAsClaimed(fn_input.resources, fn_output[1].main)
        /\ FlattenedAsClaimed(fn_input.resources, fn_output[1].ckan)

\* C10: formats CSV, absent, JSON and URLs u1, u2, absent give "CSV, JSON"
\* and two URLs
C10_Witness ==
    /\ fn_output # <<>>
    /\ fn_input.resources = << [name |-> "r", format |-> "CSV", url |-> "u1"],
                               [name |-> "r", url |-> "u2"],
                               [name |-> "r", format |-> "JSON"] >>
    /\ fn_output[1].ckan = [formats |-> "CSV, JSON", urls |-> <<"u1", "u2">>]
    /\ fn_output[1].main = fn_output[1].ckan

(***************************************************************************)
(* The markup stripping applied on its own, to every description of at     *)
(* most MaxNotesLen characters, once and then again to its own output.     *)
(***************************************************************************)
NoteChars == {"<", ">", "a"}

InitStrip ==
    /\ PipeIdle
    /\ fn_input \in {[op |-> "replace_all", notes |-> n] :
                        n \in SeqsUpTo(NoteChars, MaxNotesLen)}
    /\ fn_output = <<>>

\* HTML_TAG_REGEX.replace_all(.., ""), the first time on the description and
\* the second time on the first result
ApplyStrip ==
    /\ fn_input.op = "replace_all"
    /\ Len(fn_output) < 2
    /\ fn_output' = Append(fn_output,
                           HTML_TAG_REGEX_replace_all(
                               IF fn_output = <<>> THEN fn_input.notes
                               ELSE fn_output[1]))
    /\ UNCHANGED <<pipeVars, fn_input>>

SpecStrip == InitStrip /\ [][ApplyStrip]_vars

\* s has a substring "<", one or more characters other than ">", ">"
HasTag(s) ==
    \E i \in 1..Len(s) : \E j \in i + 2..Len(s) :
        /\ s[i] = "<"
        /\ s[j] = ">"
        /\ \A k \in i + 1..j - 1 : s[k] # ">"

\* C11: the result of stripping a description has no substring of the form
\* "<", one or more non-">" characters, ">", and stripping that result again
\* returns it unchanged.
C11_StripIdempotent ==
    /\ Len(fn_output) >= 1 => ~HasTag(fn_output[1])
    /\ Len(fn_output) = 2 => fn_output[2] = fn_output[1]

\* C11: a description whose tag holds a "<" and is followed by text and a
\* ">" was stripped twice; the removal left "a>" and exposed no tag
C11_Witness ==
    /\ fn_input.op = "replace_all"
    /\ fn_input.notes = <<"<", "<", "a", ">", "a", ">">>
    /\ Len(fn_output) = 2
    /\ fn_output[1] = <<"a", ">">>

(***************************************************************************)
(* The Fetcher applied on its own to one package_show response: every      *)
(* status class, an unreadable body, a null result, and a record with any  *)
(* of its scalar fields missing.                                           *)
(***************************************************************************)
\* the scalar fields of a record; organization stands for organization.title
ScalarFields ==
    {"id", "title", "notes", "license_title", "organization",
     "metadata_created", "metadata_modified"}

FullDataset ==
    Dataset("d1", <<"a", "<", "b", ">">>,
            << [name |-> "r", format |-> "CSV", url |-> "u1"] >>)

\* the record without the keys in missing
WithoutFields(d, missing) == [k \in DOMAIN d \ missing |-> d[k]]

\* the record whose organization object has no title
WithoutOrganizationTitle(d) == [d EXCEPT !.organization = [name |-> "org"]]

DetailResults ==
    {<<>>}
    \cup {<<WithoutFields(FullDataset, m)>> : m \in SUBSET ScalarFields}
    \cup {<<WithoutFields(WithoutOrganizationTitle(FullDataset), m)>> :
             m \in SUBSET (ScalarFields \ {"organization"})}

DetailStatuses == {200, 404, 500}

DetailResponses ==
    {Response("timeout", 0, FALSE, <<>>)}
    \cup {Response("ok", st, FALSE, <<>>) : st \in DetailStatuses}
    \cup {Response("ok", st, TRUE, res) : st \in DetailStatuses, res \in DetailResults}

InitFetch ==
    /\ PipeIdle
    /\ fn_input \in {[op |-> "fetch_dataset_metadata", response |-> r] :
                        r \in DetailResponses}
    /\ fn_output = <<>>

ApplyFetchDatasetMetadata ==
    /\ fn_input.op = "fetch_dataset_metadata"
    /\ fn_output = <<>>
    /\ fn_output' =
         << [main |-> fetch_dataset_metadata(fn_input.response),
             govdata |-> govdata_fetch_dataset_metadata(fn_input.response),
             ckan |-> ckan_fetch_dataset_metadata(fn_input.response)] >>
    /\ UNCHANGED <<pipeVars, fn_input>>

SpecFetch == InitFetch /\ [][ApplyFetchDatasetMetadata]_vars

\* the three fetch_dataset_metadata versions of the repository
FetcherVersions == {"main", "govdata", "ckan"}

\* the detail endpoint answered, with a status outside 200..299
NonSuccessAnswer ==
    /\ fn_input.response.transport = "ok"
    /\ ~is_success(fn_input.response.status)

\* the detail endpoint answered with a success status and {"result": null}
NullResultAnswer ==
    /\ fn_input.response.transport = "ok"
    /\ is_success(fn_input.response.status)
    /\ fn_input.response.json_ok
    /\ fn_input.response.result = <<>>

\* C12: a detail response with a non-success status gives a Failed outcome,
\* one that differs from the NotFound outcome Ok(None) of an absent record.
C12_NonSuccessIsFailed ==
    (fn_output # <<>> /\ NonSuccessAnswer) =>
        \A v \in FetcherVersions : fn_output[1][v] # Ok(<<>>)

\* C13: a success status whose body has a null result gives Ok(None) in
\* every version of the fetch, never an error.
C13_NullResultIsNotFound ==
    (fn_output # <<>> /\ NullResultAnswer) =>
        \A v \in FetcherVersions :
            /\ fn_output[1][v].tag = "Ok"
            /\ fn_output[1][v].value = <<>>

\* C13: the fetch was applied to a 200 response with a null result
C13_Witness ==
    /\ fn_output # <<>>
    /\ NullResultAnswer
    /\ fn_output[1].ckan = Ok(<<>>)
    /\ fn_output[1].main = Ok(<<>>)

\* the detail endpoint answered with a success status and a present record
PresentRecordAnswer ==
    /\ fn_input.response.transport = "ok"
    /\ is_success(fn_input.response.status)
    /\ fn_input.response.json_ok
    /\ fn_input.response.result # <<>>

\* the scalar fields the record lacks
MissingScalars(result) ==
    {f \in ScalarFields \ {"organization"} : f \notin DOMAIN result}
    \cup (IF "organization" \notin DOMAIN result THEN {"organization"}
          ELSE IF "title" \notin DOMAIN result.organization THEN {"organization"}
          ELSE {})

\* the field of the normalized record that carries the scalar field f
MetaField(f) ==
    CASE f = "notes" -> "description"
      [] f = "license_title" -> "license"
      [] f = "metadata_created" -> "created"
      [] f = "metadata_modified" -> "modified"
      [] OTHER -> f

\* C14: a present record that lacks some of its scalar fields still gives a
\* Found outcome, in every version of the fetch, with the empty string in
\* each field that is missing; it never gives an error.
C14_MissingFieldsDefault ==
    (fn_output # <<>> /\ PresentRecordAnswer) =>
        \A v \in FetcherVersions :
            /\ fn_output[1][v].tag = "Ok"
            /\ fn_output[1][v].value # <<>>
            /\ \A f \in MissingScalars(fn_input.response.result[1]) :
                 fn_output[1][v].value[1].meta[MetaField(f)] = ""

\* C15: when the listing endpoint answers with a non-success status,
\* fetch_dataset_list returns an error, whatever the body of the response.
C15_ListingStatusError ==
    (/\ fn_output # <<>>
     /\ fn_input.op = "fetch_dataset_list"
     /\ ~is_success(fn_input.response.status)) =>
        /\ fn_output[1].main.tag = "Err"
        /\ fn_output[1].ckan.tag = "Err"

(***************************************************************************)
(* Properties of the run as a whole: its fatal stages and its report.      *)
(***************************************************************************)
\* the listing request fails, or its body has no array of strings
ListingFails ==
    \/ listing_response.transport # "ok"
    \/ ~listing_response.json_ok

\* no detail fetch was started
NoDetailFetch ==
    /\ next_incoming = 0
    /\ in_progress = {}
    /\ queued_outputs = {}
    /\ metadata_results = <<>>

\* C16: when the listing request fails or its body lacks the identifier
\* array, no detail fetch, table write or upload happens; when the table
\* write fails, no upload happens; and when the listing, the write or the
\* upload fails, function_handler does not answer success.
C16_FatalStagesStop ==
    /\ (ListingFails /\ pc # "start") =>
           /\ pc = "failed"
           /\ NoDetailFetch
           /\ csv_file = <<>>
           /\ uploaded = <<>>
    /\ fail_stage = "write" => (pc = "failed" /\ uploaded = <<>>)
    /\ (handler_result # <<>> /\ (ListingFails \/ fail_stage # "none")) =>
           ~ReportsSuccess(handler_result[1])

\* C16: the table write of a gov-data run failed after its fetches, nothing
\* was uploaded and the handler answered with its error message
C16_Witness ==
    /\ crate = "govdata"
    /\ fail_stage = "write"
    /\ metadata_results # <<>>
    /\ uploaded = <<>>
    /\ handler_result # <<>>
    /\ "error" \in DOMAIN handler_result[1].value

\* the number of records the run has reported as written: the root crate
\* logs it, and no answer of function_handler carries one
ReportedCount == logged_count

\* C19: when neither the listing nor the table write nor the upload failed,
\* function_handler answers success and the run has reported the number of
\* records written, however many outcomes are not Found; and the handler
\* answers failure only when one of those stages failed.
C19_SuccessWithCount ==
    handler_result # <<>> =>
        /\ fail_stage = "none" =>
               /\ ReportsSuccess(handler_result[1])
               /\ ReportedCount = <<Cardinality(FoundPositions)>>
        /\ ~ReportsSuccess(handler_result[1]) =>
               fail_stage \in {"listing", "write", "upload"}

(***************************************************************************)
(* Config::validate applied on its own.  A setting is a sequence of        *)
(* characters, of which " " is whitespace.                                 *)
(***************************************************************************)
\* a validation that tests the settings for emptiness without trimming them
untrimmed(s) == s

RECURSIVE trim_start(_)
trim_start(s) ==
    IF s = <<>> THEN <<>>
    ELSE IF Head(s) = " " THEN trim_start(Tail(s))
    ELSE s

RECURSIVE trim_end(_)
trim_end(s) ==
    IF s = <<>> THEN <<>>
    ELSE IF s[Len(s)] = " " THEN trim_end(SubSeq(s, 1, Len(s) - 1))
    ELSE s

\* str::trim
trim(s) == trim_end(trim_start(s))

is_empty(s) == Len(s) = 0

\* AppError::Config(message)
AppError_Config(message) == [kind |-> "Config", message |-> message]

\* Config::validate(&self)
validate(config) ==
    IF is_empty(trim(config.ckan_api_base_url))
    THEN Err(AppError_Config("CKAN API base URL must not be empty"))
    ELSE IF is_empty(trim(config.bucket_name))
    THEN Err(AppError_Config("S3 bucket name must not be empty"))
    ELSE IF is_empty(trim(config.csv_file))
    THEN Err(AppError_Config("CSV file name must not be empty"))
    ELSE IF config.concurrency_limit = 0
    THEN Err(AppError_Config("Concurrency limit must be greater than zero"))
    ELSE Ok("()")

SettingChars == {" ", "x"}
Settings == SeqsUpTo(SettingChars, MaxSettingLen)

Configs ==
    [ckan_api_base_url : Settings, bucket_name : Settings, csv_file : Settings,
     concurrency_limit : 0..MaxC]

InitConfig ==
    /\ PipeIdle
    /\ fn_input \in {[op |-> "validate", config |-> c] : c \in Configs}
    /\ fn_output = <<>>

\* config.validate(): the result, and the configuration after the call
ApplyValidate ==
    /\ fn_input.op = "validate"
    /\ fn_output = <<>>
    /\ fn_output' = << [result |-> validate(fn_input.config),
                        config |-> fn_input.config] >>
    /\ UNCHANGED <<pipeVars, fn_input>>

SpecConfig == InitConfig /\ [][ApplyValidate]_vars

\* the setting is empty or holds whitespace only
Blank(s) == \A i \in 1..Len(s) : s[i] = " "

\* the message of the first violated setting of the configuration, in the
\* order base URL, bucket name, CSV file name, concurrency limit; <<>> if none
FirstViolation(config) ==
    IF Blank(config.ckan_api_base_url)
    THEN <<"CKAN API base URL must not be empty">>
    ELSE IF Blank(config.bucket_name)
    THEN <<"S3 bucket name must not be empty">>
    ELSE IF Blank(config.csv_file)
    THEN <<"CSV file name must not be empty">>
    ELSE IF config.concurrency_limit = 0
    THEN <<"Concurrency limit must be greater than zero">>
    ELSE <<>>

\* C17: validate returns Ok exactly when the base URL, the bucket name and
\* the CSV file name are non-blank and the concurrency limit is not zero;
\* otherwise it returns the Config error of the first violated setting in
\* that order; and it leaves the configuration as it was.
C17_ValidateContract ==
    fn_output # <<>> =>
        LET config == fn_input.config
            result == fn_output[1].result
        IN /\ result.tag = "Ok" <=>
                  /\ ~Blank(config.ckan_api_base_url)
                  /\ ~Blank(config.bucket_name)
                  /\ ~Blank(config.csv_file)
                  /\ config.concurrency_limit # 0
           /\ result.tag = "Err" =>
                  /\ result.error.kind = "Config"
                  /\ <<result.error.message>> = FirstViolation(config)
           /\ fn_output[1].config = config

\* C17: a whitespace-only bucket name, an empty CSV file name and a limit of
\* zero behind a valid base URL: the bucket name is the one reported
C17_Witness ==
    /\ fn_output # <<>>
    /\ fn_input.op = "validate"
    /\ fn_input.config = [ckan_api_base_url |-> <<"x">>, bucket_name |-> <<" ", " ">>,
                          csv_file |-> <<>>, concurrency_limit |-> 0]
    /\ fn_output[1].result = Err(AppError_Config("S3 bucket name must not be empty"))

\* C18: a run whose concurrency limit is 0 issues no request: it is either
\* not yet past its start or has ended with a configuration error.
C18_FailFastConfig ==
    concurrency_limit = 0 =>
        \/ pc = "start"
        \/ pc = "failed" /\ fail_stage = "config"

\* the table the crate writes when the outcomes are taken one by one in
\* listing order, as a function of what the endpoints answer
SequentialTable ==
    LET ids == fetch_dataset_list(listing_response, test_mode).value
        outcomes == [i \in 1..Len(ids) |-> fetch_outcome(crate, ids[i])]
        found == collect_found(outcomes)
    IN IF crate = "root" THEN write_csv(found) ELSE govdata_serialize(found)

\* C20: the table a run writes and uploads is determined by the listing
\* response and the detail responses alone: whatever the order in which
\* the concurrent fetches complete, it is the table of the sequential run,
\* so two runs on the same responses produce the same table.
C20_RunDeterminism ==
    /\ csv_file # <<>> => csv_file = SequentialTable
    /\ uploaded # <<>> => uploaded = SequentialTable

\* C20: a table of three rows was written by a run in which a fetch
\* finished before one started earlier
C20_Witness ==
    /\ crate = "root"
    /\ overtaken
    /\ Len(csv_file) = 4
    /\ uploaded = csv_file

(***************************************************************************)
(* Properties of the order of the run: of its rows, of its stages and of   *)
(* the window of its fan-out.                                              *)
(***************************************************************************)
\* a is an initial part of b
IsPrefix(a, b) ==
    /\ Len(a) <= Len(b)
    /\ \A k \in 1..Len(a) : a[k] = b[k]

\* the identifier at index i has a Found outcome
FoundIndex(i) == is_found(fetch_outcome(crate, dataset_ids[i]))

\* the identifiers of the Found outcomes among the indices of order, in
\* the order of order
FoundIdsIn(order) ==
    LET found == SelectSeq(order, FoundIndex)
    IN [k \in 1..Len(found) |-> dataset_ids[found[k]]]

\* the identifiers of the data rows of the written table, top to bottom
RowIds == [k \in 1..Len(DataRows) |-> DataRows[k][1]]

\* the indices of the listing, in listing order
ListingOrder == [k \in 1..NumIds |-> k]

\* C21 as stated: the outcomes are collected in the order in which the
\* fetches complete, and the rows of the table are in that order.
C21_RowsInCompletionOrder ==
    /\ IsPrefix(collected_order, completion_order)
    /\ csv_file # <<>> => RowIds = FoundIdsIn(completion_order)

\* C21: the outcomes are collected in the order of the identifier list,
\* whatever the order in which the fetches complete, and the rows of the
\* table are the Found identifiers in listing order.
C21_RowsInListingOrder ==
    /\ IsPrefix(collected_order, ListingOrder)
    /\ csv_file # <<>> => RowIds = FoundIdsIn(ListingOrder)

\* C21: the second fetch completed before the first, both are Found, and
\* the table was written
C21_Witness ==
    /\ Len(completion_order) >= 2
    /\ completion_order[1] = 2
    /\ completion_order[2] = 1
    /\ FoundIndex(1) /\ FoundIndex(2)
    /\ Len(csv_file) >= 3
    /\ RowIds[1] = dataset_ids[1]

\* every listed identifier has produced its outcome
AllOutcomesCollected ==
    /\ Len(metadata_results) = NumIds
    /\ in_progress = {}
    /\ queued_outputs = {}

\* C22: no detail fetch starts before the listing request has completed;
\* nothing of the table is written before every listed identifier has
\* produced its outcome; and the upload starts only after the complete
\* table has been written and flushed, and hands off that table.
C22_StageOrdering ==
    /\ pc = "start" => (NoDetailFetch /\ completion_order = <<>>)
    /\ (pc = "fanout" /\ ~AllOutcomesCollected) => csv_file = <<>>
    /\ csv_file # <<>> => AllOutcomesCollected
    /\ (pc = "upload" \/ uploaded # <<>>) =>
           /\ csv_file # <<>>
           /\ Len(DataRows) = Cardinality(FoundPositions)
    /\ uploaded # <<>> => uploaded = csv_file

\* C22: a gov-data run over a full-length list, in which a fetch overtook
\* another, has uploaded its table
C22_Witness ==
    /\ crate = "govdata"
    /\ NumIds = MaxIds
    /\ overtaken
    /\ AllOutcomesCollected
    /\ uploaded # <<>>

\* the indices whose fetch has been started
AdmittedIndices == {i \in DOMAIN started : started[i] > 0}

\* the indices whose fetch has completed without its outcome being yielded
WaitingIndices == {o.index : o \in queued_outputs}

\* the indices whose outcome has been yielded
YieldedIndices == Range(collected_order)

\* C23: the identifiers are admitted in list order and their outcomes
\* yielded in list order; the fetches in flight and the completed fetches
\* whose outcome is not yet yielded are together at most C; and an
\* identifier beyond the first C is admitted only once the outcome of the
\* identifier C places before it has been yielded.
C23_OrderedWindow ==
    /\ AdmittedIndices = 1..next_incoming
    /\ \A k \in 1..Len(collected_order) : collected_order[k] = k
    /\ in_progress \cup WaitingIndices = Len(collected_order) + 1..next_incoming
    /\ Cardinality(in_progress) + Cardinality(WaitingIndices) <= concurrency_limit
    /\ \A j \in AdmittedIndices :
         j > concurrency_limit => (j - concurrency_limit) \in YieldedIndices

\* C23: with C = 2 the second fetch completed before the first; the third
\* identifier was admitted when the first outcome was yielded and runs
\* while the second outcome still waits
C23_Witness ==
    /\ pc = "fanout"
    /\ concurrency_limit = 2
    /\ completion_order = <<2, 1>>
    /\ collected_order = <<1>>
    /\ in_progress = {3}
    /\ WaitingIndices = {2}

====
